---- MODULE Spec2Model ----
(***************************************************************************)
(* Audio/Video Summary App (src/app.py): a Streamlit script.  Every user   *)
(* interaction of a session re-runs the script top to bottom against that  *)
(* session's st.session_state; the vector collection and the               *)
(* st.cache_resource clients are shared by all sessions of the process.    *)
(* A script run is modelled as a sequence of steps, one per access to a    *)
(* shared resource, with the session-local statements between two accesses *)
(* folded into the step that follows them.                                 *)
(***************************************************************************)
EXTENDS Integers, Sequences, FiniteSets, TLC

\* ------------------------------------------------------------ bounds ----
\* Collection size below which a save may start, per specification.
\* Workflow (Spec):
MaxNotes == 1
\* Repeated saves (SpecSave):
MaxSaveNotes == 3
\* Two sessions (SpecConc):
MaxConcNotes == 2
\* Listing (SpecList): above the listing limit, so that the cut-off happens.
MaxListNotes == 11

\* --------------------------------------------------- program constants ----
\* limit=10 of scroll / search
ListLimit == 10

Sessions == {"s1", "s2"}
Kinds == {"audio", "video"}
\* API keys typed into the prompt
Keys == {"k1", "k2"}
\* Uploadable files.  "fbad" cannot be decoded as audio; "f3" normalises to
\* bytes different from those of "f1" but with the same digest.
Files == {"f1", "f2", "f3", "fbad"}
NoFile == "none"
\* Texts the chat completion may return
SummaryTexts == {"S1", "S2"}
\* Texts typed into the search box
QueryTexts == {"", "S1"}
None == "None"

GenButton(k) == IF k = "audio" THEN "Generate Audio Summary" ELSE "Generate Video Summary"
SaveButton(k) == IF k = "audio" THEN "Save Audio Summary" ELSE "Save Video Summary"
Uploader(k) == IF k = "audio" THEN "Upload Audio File" ELSE "Upload Video File"
SearchButton == "Search"
SearchInput == "Search a Summary"
Buttons == {GenButton(k) : k \in Kinds} \cup {SaveButton(k) : k \in Kinds} \cup {SearchButton}

\* keys of st.session_state
BytesKey(k) == k \o "_bytes"
Md5Key(k) == k \o "_bytes_md5"
SummaryKey(k) == k \o "_summary"

\* ------------------------------------------------------ pure functions ----
\* AudioSegment.from_file raises on input it cannot decode
Decodable(f) == f # "fbad"

\* convert_user_file: the mp3 bytes of a decodable file
convert_user_file(f) ==
    CASE f = "f1" -> "b1"
      [] f = "f2" -> "b2"
      [] f = "f3" -> "b3"

\* md5(...).hexdigest(): deterministic, not injective
md5(b) ==
    CASE b = "b1" -> "h1"
      [] b = "b2" -> "h2"
      [] b = "b3" -> "h1"

\* get_embedding's vector, as the index of the direction it points in
EmbeddingOf(text) ==
    CASE text = "S1" -> 1
      [] text = "S2" -> 2
      [] OTHER -> 3

\* cosine similarity in percent
Cosine(u, v) == IF u = v THEN 100 ELSE 0

Min(S) == CHOOSE x \in S : \A y \in S : x <= y

RECURSIVE SortedIds(_)
\* the ids of a set in ascending order
SortedIds(S) == IF S = {} THEN << >> ELSE <<Min(S)>> \o SortedIds(S \ {Min(S)})

Take(seq, n) == IF Len(seq) <= n THEN seq ELSE SubSeq(seq, 1, n)


\* ------------------------------------------------------------- state ----
VARIABLES
    session_state,           \* st.session_state of each session
    uploaded,                \* the file each st.file_uploader holds
    query,                   \* the text of the search st.text_input
    rendered,                \* widgets the current / last run has put on the page
    pc,                      \* position of the session's script run
    click,                   \* the button whose click started the run
    total_number_of_points,  \* add_note_to_qdrant's local
    embedding,               \* the vector get_embedding returned to the run
    err,                     \* the exception that ended the run
    calls,                   \* language-model calls of the run, with the key used
    pre,                     \* media state at the start of the run
    result,                  \* what list_notes_from_qdrant returned to the run
    src,                     \* digest of the bytes each stored summary was made from
    streak,                  \* successive completed saves of one summary
    collection_exists,       \* whether collection SUMMARIES exists
    points,                  \* the collection: id -> [vector, payload]
    openai_client,           \* key of the cached OpenAI client, "" before the first call
    okSaves                  \* number of add_note_to_qdrant calls that returned

vars == <<session_state, uploaded, query, rendered, pc, click,
          total_number_of_points, embedding, err, calls, pre, result, src,
          streak, collection_exists, points, openai_client, okSaves>>

MediaKeys == {BytesKey(k) : k \in Kinds} \cup {Md5Key(k) : k \in Kinds}
                \cup {SummaryKey(k) : k \in Kinds}

\* the bytes, fingerprint and summary of both kinds
MediaState(st) == [key \in MediaKeys |-> st[key]]

NoStreak == [kind |-> None, n |-> 0, base |-> 0]

\* lines 173-201 on the first run of a session: defaults, then the key prompt
Init ==
    /\ session_state = [s \in Sessions |->
            [api_key |-> "", audio_bytes |-> "", video_bytes |-> "",
             audio_bytes_md5 |-> "", video_bytes_md5 |-> "",
             audio_summary |-> "", video_summary |-> ""]]
    /\ uploaded = [s \in Sessions |-> [k \in Kinds |-> NoFile]]
    /\ query = [s \in Sessions |-> ""]
    /\ rendered = [s \in Sessions |-> {}]
    /\ pc = [s \in Sessions |-> "idle"]
    /\ click = [s \in Sessions |-> None]
    /\ total_number_of_points = [s \in Sessions |-> 0]
    /\ embedding = [s \in Sessions |-> 0]
    /\ err = [s \in Sessions |-> "none"]
    /\ calls = [s \in Sessions |-> {}]
    /\ pre = [s \in Sessions |-> [key \in MediaKeys |-> ""]]
    /\ result = [s \in Sessions |-> << >>]
    /\ src = [s \in Sessions |-> [k \in Kinds |-> ""]]
    /\ streak = [s \in Sessions |-> NoStreak]
    /\ collection_exists = FALSE
    /\ points = << >>
    /\ openai_client = ""
    /\ okSaves = 0

\* --------------------------------------------------- script fragments ----
NextTab(k) == IF k = "audio" THEN "video_tab" ELSE "search_tab"
TabPc(k) == k \o "_tab"
EmbedPc(k) == k \o "_embed"
UpsertPc(k) == k \o "_upsert"
KindAt(p) == IF p \in {"audio_tab", "audio_embed", "audio_upsert"} THEN "audio" ELSE "video"

\* a button that also reads as pressed, for the generate buttons, in every run
ButtonPressedOrGenerate(s, label) ==
    click[s] = label \/ label \in {GenButton(k) : k \in Kinds}

\* st.button(label): True in the run its click started
ButtonPressed(s, label) == click[s] = label

\* get_openai_client under st.cache_resource: one client for the process,
\* built from the api_key of the session that calls first
get_openai_client(s) ==
    IF openai_client = "" THEN session_state[s].api_key ELSE openai_client

\* an upload handler that stores the new fingerprint and keeps the summary
UploadHandlingKeepsSummary(st, k, f) ==
    LET st1 == [st EXCEPT ![BytesKey(k)] = convert_user_file(f)]
    IN  [st1 EXCEPT ![Md5Key(k)] = md5(st1[BytesKey(k)])]

\* an upload handler that stores the bytes and never looks at the fingerprint
UploadHandlingNoCompare(st, k, f) ==
    [st EXCEPT ![BytesKey(k)] = convert_user_file(f)]

\* lines 219-226 / 250-256: store the normalised bytes, and on a changed
\* fingerprint clear the summary and store the new fingerprint
UploadHandling(st, k, f) ==
    LET st1 == [st EXCEPT ![BytesKey(k)] = convert_user_file(f)]
        current_md5 == md5(st1[BytesKey(k)])
    IN  IF current_md5 # st1[Md5Key(k)]
        THEN [st1 EXCEPT ![SummaryKey(k)] = "", ![Md5Key(k)] = current_md5]
        ELSE st1

\* ids counted from zero
NoteIdZeroBased(total) == total

\* id=total_number_of_points+1
NoteId(total) == total + 1

\* PointStruct(id, vector, payload={'summary': ...})
PointStruct(vector, text) == [vector |-> vector, payload |-> [summary |-> text]]

\* a write that leaves a point that has the id as it is
upsertKeepFirst(pts, id, point) ==
    IF id \in DOMAIN pts THEN pts
    ELSE [i \in DOMAIN pts \cup {id} |-> IF i = id THEN point ELSE pts[i]]

\* a write that skips a note whose payload the collection already holds
upsertDedup(pts, id, point) ==
    IF \E i \in DOMAIN pts : pts[i].payload = point.payload THEN pts
    ELSE [i \in DOMAIN pts \cup {id} |-> IF i = id THEN point ELSE pts[i]]

\* qdrant upsert: writes the point, replacing a point that has its id
upsert(pts, id, point) ==
    [i \in DOMAIN pts \cup {id} |-> IF i = id THEN point ELSE pts[i]]

\* a listing that ignores its limit
scrollAll(pts, limit) == SortedIds(DOMAIN pts)

\* scroll(limit): the first `limit` points in id order
scroll(pts, limit) == Take(SortedIds(DOMAIN pts), limit)

RECURSIVE Ranked(_, _, _)
\* ids ordered by descending similarity to v, ties in id order
Ranked(pts, S, v) ==
    IF S = {} THEN << >>
    ELSE LET best == CHOOSE i \in S : \A j \in S :
                        \/ Cosine(pts[i].vector, v) > Cosine(pts[j].vector, v)
                        \/ /\ Cosine(pts[i].vector, v) = Cosine(pts[j].vector, v)
                           /\ i <= j
         IN  <<best>> \o Ranked(pts, S \ {best}, v)

\* search(query_vector, limit)
search(pts, v, limit) == Take(Ranked(pts, DOMAIN pts, v), limit)

\* list_notes_from_qdrant, the branch without a query
ListUnfiltered(pts) ==
    LET ids == scroll(pts, ListLimit)
    IN  [n \in 1..Len(ids) |-> [text |-> pts[ids[n]].payload.summary, score |-> None]]

\* list_notes_from_qdrant, the branch with a query
ListSearched(pts, v) ==
    LET ids == search(pts, v, ListLimit)
    IN  [n \in 1..Len(ids) |->
            [text |-> pts[ids[n]].payload.summary, score |-> Cosine(pts[ids[n]].vector, v)]]


\* ------------------------------------------------------ user actions ----
\* Every interaction starts a script run: the page is rebuilt from the top.
\* A run of saves of one kind's summary continues its streak; any other
\* interaction ends it.
BeginRun(s, label) ==
    /\ pc[s] = "idle"
    /\ pc' = [pc EXCEPT ![s] = "ensure"]
    /\ click' = [click EXCEPT ![s] = label]
    /\ err' = [err EXCEPT ![s] = "none"]
    /\ calls' = [calls EXCEPT ![s] = {}]
    /\ rendered' = [rendered EXCEPT ![s] = {}]
    /\ result' = [result EXCEPT ![s] = << >>]
    /\ pre' = [pre EXCEPT ![s] = MediaState(session_state[s])]
    /\ streak' = [streak EXCEPT ![s] =
                    IF label = SaveButton(@.kind) THEN @ ELSE NoStreak]
    /\ UNCHANGED <<total_number_of_points, embedding, src, collection_exists,
                   points, openai_client, okSaves>>

\* lines 196-201: the key typed into the prompt is stored and the script
\* re-runs past the prompt
EnterKey(s, key) ==
    /\ session_state[s].api_key = ""
    /\ session_state' = [session_state EXCEPT ![s].api_key = key]
    /\ BeginRun(s, None)
    /\ UNCHANGED <<uploaded, query>>

\* a file put into, replaced in, or removed from a st.file_uploader
Upload(s, k, f) ==
    /\ Uploader(k) \in rendered[s]
    /\ f # uploaded[s][k]
    /\ uploaded' = [uploaded EXCEPT ![s][k] = f]
    /\ BeginRun(s, None)
    /\ UNCHANGED <<session_state, query>>

\* text typed into the search box
SetQuery(s, q) ==
    /\ SearchInput \in rendered[s]
    /\ q # query[s]
    /\ query' = [query EXCEPT ![s] = q]
    /\ BeginRun(s, None)
    /\ UNCHANGED <<session_state, uploaded>>

\* a click on a button the page shows; a save starts only below the bound
Click(s, label, maxNotes) ==
    /\ label \in rendered[s] \cap Buttons
    /\ label \in {SaveButton(k) : k \in Kinds} => Cardinality(DOMAIN points) < maxNotes
    /\ BeginRun(s, label)
    /\ UNCHANGED <<session_state, uploaded, query>>

\* the Rerun command of the page menu
Rerun(s) ==
    /\ session_state[s].api_key # ""
    /\ BeginRun(s, None)
    /\ UNCHANGED <<session_state, uploaded, query>>

\* ------------------------------------------------------- script steps ----
\* an uncaught exception ends the run; its locals are gone
Raise(s, e) ==
    /\ pc' = [pc EXCEPT ![s] = "idle"]
    /\ err' = [err EXCEPT ![s] = e]
    /\ total_number_of_points' = [total_number_of_points EXCEPT ![s] = 0]
    /\ embedding' = [embedding EXCEPT ![s] = 0]

\* the script ran to its last line
Finish(s) ==
    /\ pc' = [pc EXCEPT ![s] = "idle"]
    /\ pre' = [pre EXCEPT ![s] = MediaState(session_state[s])]
    /\ total_number_of_points' = [total_number_of_points EXCEPT ![s] = 0]
    /\ embedding' = [embedding EXCEPT ![s] = 0]

\* check_if_collection_exists, the collection_exists call
Ensure(s, oks) ==
    /\ pc[s] = "ensure"
    /\ \E ok \in oks :
        IF ok
        THEN /\ pc' = [pc EXCEPT ![s] = IF collection_exists THEN "audio_tab" ELSE "create"]
             /\ UNCHANGED <<err, total_number_of_points, embedding>>
        ELSE Raise(s, "StoreError")
    /\ UNCHANGED <<session_state, uploaded, query, rendered, click, calls, pre,
                   result, src, streak, collection_exists, points,
                   openai_client, okSaves>>

\* check_if_collection_exists, the create_collection call: the store refuses
\* to create a collection that exists
Create(s, oks) ==
    /\ pc[s] = "create"
    /\ \E ok \in oks :
        IF ok /\ ~collection_exists
        THEN /\ collection_exists' = TRUE
             /\ pc' = [pc EXCEPT ![s] = "audio_tab"]
             /\ UNCHANGED <<err, total_number_of_points, embedding>>
        ELSE /\ Raise(s, IF ok THEN "Conflict" ELSE "StoreError")
             /\ UNCHANGED collection_exists
    /\ UNCHANGED <<session_state, uploaded, query, rendered, click, calls, pre,
                   result, src, streak, points, openai_client, okSaves>>

\* lines 229-230 / 259-260: transcribe_audio, then summary, both through the
\* cached client; the summary is stored only when both calls return
Generate(o, s, k, transcribed, summarized, text) ==
    LET key == IF o.client = "" THEN o.st.api_key ELSE o.client
        t == [api |-> "transcriptions", key |-> key]
        c == [api |-> "chat", key |-> key]
    IN  IF ~transcribed
        THEN [o EXCEPT !.client = key, !.calls = @ \cup {t},
                       !.pc = "idle", !.err = "TranscriptionError"]
        ELSE IF ~summarized
        THEN [o EXCEPT !.client = key, !.calls = @ \cup {t, c},
                       !.pc = "idle", !.err = "SummarizationError"]
        ELSE [o EXCEPT !.client = key, !.calls = @ \cup {t, c},
                       !.st[SummaryKey(k)] = text,
                       !.src[k] = md5(o.st[BytesKey(k)])]

\* One tab of the page (lines 215-242 audio, 245-272 video) up to its first
\* store call: what the run has done when the step ends.
TabOutcome(s, k, transcribed, summarized, text, counted) ==
    LET f == uploaded[s][k]
        o0 == [st |-> session_state[s], src |-> src[s],
               rendered |-> rendered[s] \cup {Uploader(k)},
               calls |-> calls[s], client |-> openai_client,
               pc |-> NextTab(k), err |-> "none",
               total |-> total_number_of_points[s]]
    IN  IF f = NoFile THEN o0
        ELSE IF ~Decodable(f)
        THEN [o0 EXCEPT !.pc = "idle", !.err = "UnsupportedMediaError"]
        ELSE
        LET st1 == UploadHandling(o0.st, k, f)
            o1 == [o0 EXCEPT !.st = st1,
                             !.src[k] = IF st1[SummaryKey(k)] = "" THEN "" ELSE @,
                             !.rendered = @ \cup {GenButton(k)}]
            o2 == IF ButtonPressed(s, GenButton(k))
                  THEN Generate(o1, s, k, transcribed, summarized, text)
                  ELSE o1
        IN  IF o2.err # "none" \/ o2.st[SummaryKey(k)] = "" THEN o2
            ELSE
            LET o3 == [o2 EXCEPT !.rendered = @ \cup {SaveButton(k)}]
            IN  IF ~ButtonPressed(s, SaveButton(k)) THEN o3
                ELSE IF counted
                THEN [o3 EXCEPT !.total = Cardinality(DOMAIN points),
                                !.pc = EmbedPc(k)]
                ELSE [o3 EXCEPT !.pc = "idle", !.err = "StoreError"]

\* the outcomes of the remote calls the tab makes in this run: transcription,
\* chat completion and its text when Generate was clicked, count when Save was
TabChoices(s, k, texts, oks) ==
    IF ButtonPressed(s, GenButton(k)) THEN oks \X oks \X texts \X {TRUE}
    ELSE IF ButtonPressed(s, SaveButton(k)) THEN {TRUE} \X {TRUE} \X {""} \X oks
    ELSE {<<TRUE, TRUE, "", TRUE>>}

Tab(s, k, texts, oks) ==
    /\ pc[s] = TabPc(k)
    /\ \E c \in TabChoices(s, k, texts, oks) :
        LET o == TabOutcome(s, k, c[1], c[2], c[3], c[4])
        IN  /\ session_state' = [session_state EXCEPT ![s] = o.st]
            /\ src' = [src EXCEPT ![s] = o.src]
            /\ rendered' = [rendered EXCEPT ![s] = o.rendered]
            /\ calls' = [calls EXCEPT ![s] = o.calls]
            /\ openai_client' = o.client
            /\ pc' = [pc EXCEPT ![s] = o.pc]
            /\ err' = [err EXCEPT ![s] = o.err]
            /\ total_number_of_points' = [total_number_of_points EXCEPT ![s] = o.total]
    /\ UNCHANGED <<uploaded, query, click, embedding, pre, result, streak,
                   collection_exists, points, okSaves>>

\* get_embedding, for the note being saved or for the query
Embed(s, oks) ==
    /\ pc[s] \in {"audio_embed", "video_embed", "search_embed"}
    /\ LET text == IF pc[s] = "search_embed" THEN query[s]
                   ELSE session_state[s][SummaryKey(KindAt(pc[s]))]
           key == get_openai_client(s)
       IN  /\ openai_client' = key
           /\ calls' = [calls EXCEPT ![s] = @ \cup {[api |-> "embeddings", key |-> key]}]
           /\ \E ok \in oks :
                IF ok
                THEN /\ embedding' = [embedding EXCEPT ![s] = EmbeddingOf(text)]
                     /\ pc' = [pc EXCEPT ![s] =
                                IF @ = "search_embed" THEN "search_query"
                                ELSE UpsertPc(KindAt(@))]
                     /\ UNCHANGED <<err, total_number_of_points>>
                ELSE Raise(s, "EmbeddingError")
    /\ UNCHANGED <<session_state, uploaded, query, rendered, click, pre, result,
                   src, streak, collection_exists, points, okSaves>>

\* add_note_to_qdrant, the upsert call; the run then goes on to the next tab
Upsert(s, oks) ==
    /\ pc[s] \in {"audio_upsert", "video_upsert"}
    /\ LET k == KindAt(pc[s])
           text == session_state[s][SummaryKey(k)]
       IN  \E ok \in oks :
            IF ok
            THEN /\ points' = upsert(points, NoteId(total_number_of_points[s]),
                                     PointStruct(embedding[s], text))
                 /\ okSaves' = okSaves + 1
                 /\ streak' = [streak EXCEPT ![s] =
                                IF @.kind = k
                                THEN [@ EXCEPT !.n = @ + 1]
                                ELSE [kind |-> k, n |-> 1,
                                      base |-> Cardinality(DOMAIN points)]]
                 /\ pc' = [pc EXCEPT ![s] = NextTab(k)]
                 /\ UNCHANGED <<err, total_number_of_points, embedding>>
            ELSE /\ Raise(s, "StoreError")
                 /\ UNCHANGED <<points, okSaves, streak>>
    /\ UNCHANGED <<session_state, uploaded, query, rendered, click, calls, pre,
                   result, src, collection_exists, openai_client>>

\* lines 274-283: the search tab; without a query the listing is one scroll
SearchTab(s, oks) ==
    /\ pc[s] = "search_tab"
    /\ rendered' = [rendered EXCEPT ![s] = @ \cup {SearchInput, SearchButton}]
    /\ IF ~ButtonPressed(s, SearchButton)
       THEN Finish(s) /\ UNCHANGED <<err, result>>
       ELSE IF query[s] # ""
       THEN /\ pc' = [pc EXCEPT ![s] = "search_embed"]
            /\ UNCHANGED <<err, result, pre, total_number_of_points, embedding>>
       ELSE \E ok \in oks :
            IF ok
            THEN /\ result' = [result EXCEPT ![s] = ListUnfiltered(points)]
                 /\ Finish(s)
                 /\ UNCHANGED err
            ELSE Raise(s, "StoreError") /\ UNCHANGED <<result, pre>>
    /\ UNCHANGED <<session_state, uploaded, query, click, calls, src, streak,
                   collection_exists, points, openai_client, okSaves>>

\* list_notes_from_qdrant, the search call
Search(s, oks) ==
    /\ pc[s] = "search_query"
    /\ \E ok \in oks :
        IF ok
        THEN /\ result' = [result EXCEPT ![s] = ListSearched(points, embedding[s])]
             /\ Finish(s)
             /\ UNCHANGED err
        ELSE Raise(s, "StoreError") /\ UNCHANGED <<result, pre>>
    /\ UNCHANGED <<session_state, uploaded, query, rendered, click, calls, src,
                   streak, collection_exists, points, openai_client, okSaves>>

\* ---------------------------------------------------- specifications ----
\* the outcomes of a remote call: it returns (TRUE) or raises (FALSE)
Outcomes == BOOLEAN
\* the remote services answer every call
Available == {TRUE}

\* Spec: one session, every file for both kinds, every failure: the upload /
\* generate / save workflow.
Next ==
    \E s \in {"s1"} :
        \/ EnterKey(s, "k1")
        \/ \E k \in Kinds, f \in Files \cup {NoFile} : Upload(s, k, f)
        \/ \E q \in QueryTexts : SetQuery(s, q)
        \/ \E b \in Buttons : Click(s, b, MaxNotes)
        \/ Rerun(s)
        \/ Ensure(s, Outcomes)
        \/ Create(s, Outcomes)
        \/ \E k \in Kinds : Tab(s, k, SummaryTexts, Outcomes)
        \/ Embed(s, Outcomes)
        \/ Upsert(s, Outcomes)
        \/ SearchTab(s, Outcomes)
        \/ Search(s, Outcomes)

Spec == Init /\ [][Next]_vars

\* SpecSave: one session, one file per kind, more notes: repeated saves.
NextSave ==
    \E s \in {"s1"} :
        \/ EnterKey(s, "k1")
        \/ \E k \in Kinds : Upload(s, k, "f1")
        \/ \E b \in Buttons : Click(s, b, MaxSaveNotes)
        \/ Ensure(s, Outcomes)
        \/ Create(s, Outcomes)
        \/ \E k \in Kinds : Tab(s, k, SummaryTexts, Outcomes)
        \/ Embed(s, Outcomes)
        \/ Upsert(s, Outcomes)
        \/ SearchTab(s, Outcomes)

SpecSave == Init /\ [][NextSave]_vars

\* SpecList: one session, one audio file, one summary text, a collection
\* that outgrows the listing limit: listing and search.
NextList ==
    \E s \in {"s1"} :
        \/ EnterKey(s, "k1")
        \/ Upload(s, "audio", "f1")
        \/ \E q \in QueryTexts : SetQuery(s, q)
        \/ \E b \in Buttons : Click(s, b, MaxListNotes)
        \/ Ensure(s, Outcomes)
        \/ Create(s, Outcomes)
        \/ \E k \in Kinds : Tab(s, k, {"S1"}, Outcomes)
        \/ Embed(s, Outcomes)
        \/ Upsert(s, Outcomes)
        \/ SearchTab(s, Outcomes)
        \/ Search(s, Outcomes)

SpecList == Init /\ [][NextList]_vars

\* the key each session's user types
KeyOf(s) == IF s = "s1" THEN "k1" ELSE "k2"

\* SpecConc: two sessions whose runs interleave at every call to the store
\* and to the client cache; one audio file, services that answer.
NextConc ==
    \E s \in Sessions :
        \/ EnterKey(s, KeyOf(s))
        \/ Upload(s, "audio", "f1")
        \/ \E b \in Buttons \ {SearchButton} : Click(s, b, MaxConcNotes)
        \/ Rerun(s)
        \/ Ensure(s, Available)
        \/ Create(s, Available)
        \/ \E k \in Kinds : Tab(s, k, SummaryTexts, Available)
        \/ Embed(s, Available)
        \/ Upsert(s, Available)
        \/ SearchTab(s, Available)

SpecConc == Init /\ [][NextConc]_vars

\* ------------------------------------------------------------ claims ----
GenButtons == {GenButton(k) : k \in Kinds}
SaveButtons == {SaveButton(k) : k \in Kinds}
\* session s is between the count call and the upsert call of a save
InInsert(s) == pc[s] \in {"audio_embed", "video_embed", "audio_upsert", "video_upsert"}
\* this step is session s's upsert call returning
UpsertReturns(s) ==
    /\ pc[s] \in {"audio_upsert", "video_upsert"}
    /\ pc'[s] = NextTab(KindAt(pc[s]))

\* C1: in the step that handles a kind's upload, a fingerprint different
\* from the stored one leaves that kind's summary empty and the new
\* fingerprint stored; an identical fingerprint leaves the fingerprint, and
\* (unless this run is that kind's generate) the summary, as they were.
C1_UploadInvalidates ==
    [][\A s \in Sessions, k \in Kinds :
        (/\ pc[s] = TabPc(k)
         /\ pc'[s] # pc[s]
         /\ uploaded[s][k] # NoFile
         /\ Decodable(uploaded[s][k]))
        => LET new == md5(convert_user_file(uploaded[s][k]))
               old == session_state[s][Md5Key(k)]
           IN  IF new # old
               THEN /\ session_state'[s][SummaryKey(k)] = ""
                    /\ session_state'[s][Md5Key(k)] = new
               ELSE /\ session_state'[s][Md5Key(k)] = old
                    /\ click[s] # GenButton(k) =>
                         session_state'[s][SummaryKey(k)] = session_state[s][SummaryKey(k)]
    ]_vars

\* C1 witness: the audio tab has just cleared a summary held at the start
\* of the run, the fingerprint having changed.
C1_Witness ==
    /\ pc["s1"] = "video_tab"
    /\ pre["s1"]["audio_summary"] # ""
    /\ session_state["s1"]["audio_summary"] = ""
    /\ pre["s1"]["audio_bytes_md5"] # session_state["s1"]["audio_bytes_md5"]

\* C2: when session s is between count and upsert and another session t
\* that read the same count completes its upsert, t's note lands on the id
\* s is about to write; and an upsert onto an id that has been written
\* since its count was read returns without error, leaves the set of ids
\* as it is and replaces that note's vector and payload by its own.
C2_InsertRace ==
    [][\A s \in Sessions :
        /\ \A t \in Sessions \ {s} :
              (/\ InInsert(s)
               /\ total_number_of_points[s] = total_number_of_points[t]
               /\ UpsertReturns(t))
              => /\ NoteId(total_number_of_points[s]) \in DOMAIN points'
                 /\ points'[NoteId(total_number_of_points[s])] =
                       PointStruct(embedding[t],
                                   session_state[t][SummaryKey(KindAt(pc[t]))])
        /\ (UpsertReturns(s) /\ NoteId(total_number_of_points[s]) \in DOMAIN points)
            => /\ err'[s] = "none"
               /\ okSaves' = okSaves + 1
               /\ DOMAIN points' = DOMAIN points
               /\ points'[NoteId(total_number_of_points[s])] =
                     PointStruct(embedding[s],
                                 session_state[s][SummaryKey(KindAt(pc[s]))])
               /\ \A i \in DOMAIN points \ {NoteId(total_number_of_points[s])} :
                     points'[i] = points[i]
    ]_vars

\* C2 witness: both sessions' saves have returned without error, the
\* collection holds one note, and it is not the one session s1 wrote.
C2_Witness ==
    /\ okSaves = 2
    /\ Cardinality(DOMAIN points) = 1
    /\ \A s \in Sessions : pc[s] = "idle" /\ err[s] = "none" /\ click[s] \in SaveButtons
    /\ points[1].payload.summary # session_state["s1"]["audio_summary"]

\* C3 (as claimed): a run that ended in an exception has left the bytes,
\* fingerprint and summary of both kinds as they were when it started.
C3_FailedActionLeavesState ==
    \A s \in Sessions :
        (pc[s] = "idle" /\ err[s] # "none") => MediaState(session_state[s]) = pre[s]

\* C4 (as claimed): no run ends with the store refusing create_collection,
\* as none does when the runs of the sessions follow one another.
C4_NoOtherHazard ==
    \A s \in Sessions : err[s] # "Conflict"

\* C5 (as claimed): every language-model call of a session's run uses the
\* key entered in that session.
C5_KeyPerSession ==
    \A s \in Sessions : \A c \in calls[s] : c.key = session_state[s].api_key

\* C6: after k successive completed saves of a kind's summary in a session
\* the collection has grown by k, and the k new ids each hold that summary.
C6_RepeatedSaves ==
    \A s \in Sessions :
        streak[s].n > 0 =>
            /\ Cardinality(DOMAIN points) = streak[s].base + streak[s].n
            /\ \A i \in (streak[s].base + 1)..(streak[s].base + streak[s].n) :
                  /\ i \in DOMAIN points
                  /\ points[i].payload.summary =
                        session_state[s][SummaryKey(streak[s].kind)]

\* C6 witness: three successive saves of one summary have completed.
C6_Witness ==
    /\ streak["s1"].n >= 3
    /\ pc["s1"] = "idle"

\* C7: a transcription or chat call is made, and a kind's summary goes from
\* empty to non-empty, only in that kind's tab of a run started by its
\* generate button; the collection changes only in the upsert of a run
\* started by a save button.
C7_ExplicitTriggers ==
    [][/\ \A s \in Sessions :
            /\ (\E c \in calls'[s] \ calls[s] : c.api \in {"transcriptions", "chat"})
                => (pc[s] \in {TabPc(k) : k \in Kinds} /\ click[s] = GenButton(KindAt(pc[s])))
            /\ \A k \in Kinds :
                (session_state[s][SummaryKey(k)] = "" /\ session_state'[s][SummaryKey(k)] # "")
                => (pc[s] = TabPc(k) /\ click[s] = GenButton(k))
       /\ points' # points =>
            \E s \in Sessions : UpsertReturns(s) /\ click[s] = SaveButton(KindAt(pc[s]))
    ]_vars

\* C7 witness: a run started by Generate Video Summary has made both calls
\* and stored a summary that was empty when the run started.
C7_Witness ==
    /\ click["s1"] = GenButton("video")
    /\ {c.api : c \in calls["s1"]} = {"transcriptions", "chat"}
    /\ pre["s1"]["video_summary"] = ""
    /\ session_state["s1"]["video_summary"] # ""
    /\ pc["s1"] = "search_tab"

\* C8: a completed search with an empty query has returned at most
\* ListLimit notes, each with no score, and the run made no embedding call.
C8_UnfilteredListing ==
    \A s \in Sessions :
        (pc[s] = "idle" /\ err[s] = "none" /\ click[s] = SearchButton /\ query[s] = "")
        => /\ Len(result[s]) <= ListLimit
           /\ \A n \in 1..Len(result[s]) : result[s][n].score = None
           /\ \A c \in calls[s] : c.api # "embeddings"

\* C8 witness: the listing of a collection of more than ListLimit notes.
C8_Witness ==
    /\ pc["s1"] = "idle" /\ err["s1"] = "none"
    /\ click["s1"] = SearchButton /\ query["s1"] = ""
    /\ Cardinality(DOMAIN points) > ListLimit
    /\ Len(result["s1"]) = ListLimit

\* C9: the ids of the collection are 1..N for N its count, in every state;
\* the count never decreases; an upsert whose count is still current writes
\* an id the collection did not hold.
C9_IdsContiguous ==
    /\ DOMAIN points = 1..Cardinality(DOMAIN points)
    /\ [][/\ DOMAIN points' = 1..Cardinality(DOMAIN points')
          /\ Cardinality(DOMAIN points') >= Cardinality(DOMAIN points)
          /\ \A s \in Sessions :
                (UpsertReturns(s)
                 /\ total_number_of_points[s] = Cardinality(DOMAIN points))
                => /\ NoteId(total_number_of_points[s]) \notin DOMAIN points
                   /\ DOMAIN points' = DOMAIN points \cup {NoteId(total_number_of_points[s])}
       ]_vars

\* C9 witness: both sessions have saved and the collection holds two notes.
C9_Witness ==
    /\ Cardinality(DOMAIN points) = 2
    /\ okSaves = 2
    /\ \A s \in Sessions : click[s] \in SaveButtons

\* C10: a stored summary was generated from bytes whose fingerprint is the
\* stored fingerprint of its kind, in every state.
C10_SummaryMatchesFingerprint ==
    \A s \in Sessions, k \in Kinds :
        session_state[s][SummaryKey(k)] # "" =>
            src[s][k] = session_state[s][Md5Key(k)]

\* C10 witness: the video tab has just handled content with fingerprint h2
\* while a summary generated from content with fingerprint h1 was stored,
\* and holds no summary for it.
C10_Witness ==
    /\ pc["s1"] = "search_tab"
    /\ pre["s1"]["video_summary"] # ""
    /\ pre["s1"]["video_bytes_md5"] = "h1"
    /\ src["s1"]["video"] = ""
    /\ session_state["s1"]["video_bytes_md5"] = "h2"
    /\ session_state["s1"]["video_summary"] = ""

====
